---- MODULE Spec2Model ----
(***************************************************************************)
(* Model of the Windows console file manager: the directory lister         *)
(* (navigation.list_directory over utils.safe_windows_listdir), the five   *)
(* recursive walks of analysis.py as run by show_windows_directory_stats,  *)
(* and the three stack-based search walks of search.py.                    *)
(*                                                                         *)
(* Strings are sequences of one-character strings, so that the path        *)
(* arithmetic of the code (join, str(Path), lower, split, endswith, the    *)
(* 260-character limit) is computed and not assumed.                       *)
(***************************************************************************)
EXTENDS Integers, Sequences, FiniteSets, TLC

(***************************************************************************)
(* Bounds of the model.                                                    *)
(***************************************************************************)
\* largest file size, in bytes, given to a file of the tree
MaxSize == 2
\* number of characters of the long name given to the symbolic link
LongLen == 60
\* depth of nested calls the model follows; the 260-character limit of
\* validate_windows_path ends every recursion before it
MaxDepth == 12

(***************************************************************************)
(* Strings.                                                                *)
(***************************************************************************)
UpperAlpha == <<"A","B","C","D","E","F","G","H","I","J","K","L","M",
                "N","O","P","Q","R","S","T","U","V","W","X","Y","Z">>
LowerAlpha == <<"a","b","c","d","e","f","g","h","i","j","k","l","m",
                "n","o","p","q","r","s","t","u","v","w","x","y","z">>

UpperSet == {UpperAlpha[i] : i \in 1..26}
LowerOf == [c \in UpperSet |-> LowerAlpha[CHOOSE i \in 1..26 : UpperAlpha[i] = c]]

\* str.lower() of one character
LowerChar(c) == IF c \in UpperSet THEN LowerOf[c] ELSE c

\* str.lower()
Lower(s) == [i \in 1..Len(s) |-> LowerChar(s[i])]

\* characters str.strip() removes (the ones the model's inputs can hold)
IsSpace(c) == c = " "

RECURSIVE LStrip(_)
LStrip(s) == IF s # <<>> /\ IsSpace(s[1]) THEN LStrip(Tail(s)) ELSE s

RECURSIVE RStrip(_)
RStrip(s) ==
    IF s # <<>> /\ IsSpace(s[Len(s)]) THEN RStrip(SubSeq(s, 1, Len(s) - 1)) ELSE s

\* str.strip()
Strip(s) == RStrip(LStrip(s))

\* c in s
HasChar(s, c) == \E i \in 1..Len(s) : s[i] = c

\* s.endswith(suf)
EndsWith(s, suf) ==
    /\ Len(suf) <= Len(s)
    /\ SubSeq(s, Len(s) - Len(suf) + 1, Len(s)) = suf

\* sub in s
Contains(s, sub) ==
    \E i \in 1..(Len(s) - Len(sub) + 1) : SubSeq(s, i, i + Len(sub) - 1) = sub

\* index of the last occurrence of c in s, 0 when there is none
LastIndex(s, c) ==
    IF HasChar(s, c) THEN CHOOSE i \in 1..Len(s) :
                              s[i] = c /\ \A j \in (i + 1)..Len(s) : s[j] # c
    ELSE 0

(***************************************************************************)
(* Paths (ntpath and pathlib.WindowsPath).                                 *)
(***************************************************************************)
IsSep(c) == c \in {"\\", "/"}

\* os.path.splitdrive(p)[0] for the drive-letter form "X:..."
DriveOf(p) == IF Len(p) >= 2 /\ p[2] = ":" THEN SubSeq(p, 1, 2) ELSE <<>>

\* the path after its drive
NoDrive(p) == SubSeq(p, Len(DriveOf(p)) + 1, Len(p))

\* whether the path (after its drive) starts at the root of the drive
IsRooted(p) == NoDrive(p) # <<>> /\ IsSep(NoDrive(p)[1])

\* the maximal separator-free pieces of s, in order (str.split on the
\* separators, the empty pieces dropped)
Pieces(s) ==
    LET seps   == {i \in 1..Len(s) : IsSep(s[i])}
        bounds == seps \cup {0, Len(s) + 1}
        After(a) == CHOOSE b \in bounds : b > a /\ \A c \in bounds : c > a => c >= b
        starts == {a \in seps \cup {0} : After(a) > a + 1}
        Nth(m) == CHOOSE a \in starts : Cardinality({c \in starts : c < a}) = m - 1
    IN  [m \in 1..Cardinality(starts) |-> SubSeq(s, Nth(m) + 1, After(Nth(m)) - 1)]

\* the components of a path: empty ones and "." dropped
Components(p) == SelectSeq(Pieces(NoDrive(p)), LAMBDA c : c # <<".">>)

RECURSIVE JoinComps(_)
JoinComps(cs) ==
    IF cs = <<>> THEN <<>>
    ELSE IF Len(cs) = 1 THEN cs[1]
    ELSE cs[1] \o <<"\\">> \o JoinComps(Tail(cs))

\* os.path.normpath(p) and str(pathlib.Path(p)) on paths without ".."
normpath(p) ==
    LET body == JoinComps(Components(p))
        head == DriveOf(p) \o (IF IsRooted(p) THEN <<"\\">> ELSE <<>>)
    IN  IF head \o body = <<>> THEN <<".">> ELSE head \o body

\* os.path.join(a, b)
join(a, b) ==
    IF DriveOf(b) # <<>> THEN b
    ELSE IF IsRooted(b) THEN DriveOf(a) \o b
    ELSE IF a = <<>> \/ IsSep(a[Len(a)]) \/ a[Len(a)] = ":" THEN a \o b
    ELSE a \o <<"\\">> \o b

\* index of the last separator of q, 0 when there is none
LastSep(q) ==
    IF \E i \in 1..Len(q) : IsSep(q[i])
    THEN CHOOSE i \in 1..Len(q) : IsSep(q[i]) /\ \A j \in (i + 1)..Len(q) : ~IsSep(q[j])
    ELSE 0

RECURSIVE RStripSep(_)
RStripSep(s) ==
    IF s # <<>> /\ IsSep(s[Len(s)]) THEN RStripSep(SubSeq(s, 1, Len(s) - 1)) ELSE s

\* os.path.dirname(p)
dirname(p) ==
    LET q    == NoDrive(p)
        head == SubSeq(q, 1, LastSep(q))
    IN  DriveOf(p) \o
        (IF \A j \in 1..Len(head) : IsSep(head[j]) THEN head ELSE RStripSep(head))

(***************************************************************************)
(* The file system the program runs on.  Node "root" is the root of the    *)
(* drive; the tree under it is                                              *)
(*     \t            the directory the walks start from                     *)
(*     \t\f          a file                                                 *)
(*     \t\d          a directory, listable or not                           *)
(*     \t\h.sys      a hidden, read-only file                               *)
(*     \t\d\b.zip    a file, its size readable or not                       *)
(*     \t\d\xx..x    a symbolic link, to \t (an ancestor) or to \t\f        *)
(* with every node but \t optional.                                         *)
(***************************************************************************)
VARIABLES
    fs,         \* the tree: node -> its attributes
    cwd,        \* the node of the current working directory
    root,       \* the path the command is given
    cmd,        \* the command: "stats" or one of the three searches
    arg,        \* the argument of a search (pattern, extensions, megabytes)
    pc,         \* "idle", "walk", "between", "done", "raised"
    phase,      \* the walk in progress
    stack,      \* the frames of the recursive walk: path, items left, subtotal
    acc,        \* the accumulator of the walk in progress
    out,        \* the results of the walks that have returned
    visits,     \* history: node -> how often the walk in progress counted it
    last,       \* history: the item a walk processed last
    run,        \* 1, and 2 once the unreadable directory has been removed
    first,      \* the results of run 1, kept for run 2
    tick        \* history: 0 or 1, the other one after every step

vars == <<fs, cwd, root, cmd, arg, pc, phase, stack, acc, out, visits, last,
          run, first, tick>>

NoNode == "none"
NodeIds == {"root", "t", "f", "d", "h", "g", "l"}
\* the order in which a directory hands out its entries
NodeOrder == <<"t", "f", "d", "h", "g", "l">>

NameT == <<"t">>
NameD == <<"d">>
NameH == <<"h", ".", "s", "y", "s">>
NameG == <<"b", ".", "z", "i", "p">>
NameL == [i \in 1..LongLen |-> "x"]
NamePage == <<"P", "a", "g", "e", "f", "i", "l", "e", ".", "s", "y", "s">>
NameTxt == <<"a", ".", "t", "x", "t">>
NameNoExt == <<"n">>
FNames == {NamePage, NameTxt, NameNoExt}
Sizes == 1..MaxSize

Absent == [present |-> FALSE, parent |-> NoNode, name |-> <<>>, kind |-> "file",
           target |-> NoNode, size |-> 0, ok |-> TRUE, hidden |-> FALSE,
           writable |-> TRUE]

Dir(par, nm, listable) ==
    [Absent EXCEPT !.present = TRUE, !.parent = par, !.name = nm, !.kind = "dir",
                   !.ok = listable]

File(par, nm, sz, readable) ==
    [Absent EXCEPT !.present = TRUE, !.parent = par, !.name = nm, !.size = sz,
                   !.ok = readable]

Link(par, nm, to) ==
    [Absent EXCEPT !.present = TRUE, !.parent = par, !.name = nm, !.kind = "link",
                   !.target = to]

\* the shapes of the tree
Shapes ==
    [f : FNames \cup {<<>>}, fsize : Sizes, h : BOOLEAN,
     d : {"none", "ok", "denied"}, g : BOOLEAN, gsize : Sizes, gok : BOOLEAN,
     l : {"none", "dir", "file"}]

\* one representative of each tree: a node that is absent has no attributes
Canonical(c) ==
    /\ (c.f = <<>> => c.fsize = 1 /\ c.l # "file")
    /\ (c.d = "none" => ~c.g /\ c.l = "none")
    /\ (~c.g => c.gsize = 1 /\ c.gok)

MkTree(c) ==
    [n \in NodeIds |->
        CASE n = "root" -> Dir(NoNode, <<>>, TRUE)
          [] n = "t" -> Dir("root", NameT, TRUE)
          [] n = "f" -> IF c.f = <<>> THEN Absent ELSE File("t", c.f, c.fsize, TRUE)
          [] n = "d" -> IF c.d = "none" THEN Absent ELSE Dir("t", NameD, c.d = "ok")
          [] n = "h" -> IF c.h
                        THEN [File("t", NameH, 1, TRUE) EXCEPT !.hidden = TRUE,
                                                               !.writable = FALSE]
                        ELSE Absent
          [] n = "g" -> IF c.g THEN File("d", NameG, c.gsize, c.gok) ELSE Absent
          [] n = "l" -> IF c.l = "none" THEN Absent
                        ELSE Link("d", NameL, IF c.l = "dir" THEN "t" ELSE "f")]

Trees == {MkTree(c) : c \in {x \in Shapes : Canonical(x)}}

\* the entries of directory n, in directory order
Children(n) == SelectSeq(NodeOrder, LAMBDA x : fs[x].present /\ fs[x].parent = n)

\* the node a link stands for
Deref(n) ==
    IF n # NoNode /\ fs[n].kind = "link"
    THEN (IF fs[fs[n].target].present THEN fs[n].target ELSE NoNode)
    ELSE n

RECURSIVE WalkPath(_, _, _)
\* the node reached from directory cur by the components comps; the last
\* component is dereferenced when follow
WalkPath(cur, comps, follow) ==
    IF comps = <<>> THEN cur
    ELSE IF cur = NoNode \/ fs[cur].kind # "dir" THEN NoNode
    ELSE LET m == {n \in NodeIds : /\ fs[n].present
                                   /\ fs[n].parent = cur
                                   /\ fs[n].name = comps[1]}
         IN  IF m = {} THEN NoNode
             ELSE LET n == CHOOSE x \in m : TRUE
                  IN  WalkPath(IF Len(comps) > 1 \/ follow THEN Deref(n) ELSE n,
                               Tail(comps), follow)

RECURSIVE NodeComps(_)
\* the components of the path of node n from the root of the drive
NodeComps(n) ==
    IF n = "root" THEN <<>> ELSE Append(NodeComps(fs[n].parent), fs[n].name)

RECURSIVE Collapse(_, _)
\* the components kept once every ".." has removed the component before
\* it: Windows does so on the text of the path, before it looks at the disk
Collapse(kept, comps) ==
    IF comps = <<>> THEN kept
    ELSE IF comps[1] = <<".", ".">>
    THEN Collapse(IF kept = <<>> THEN kept ELSE SubSeq(kept, 1, Len(kept) - 1),
                  Tail(comps))
    ELSE Collapse(Append(kept, comps[1]), Tail(comps))

\* the node the components of a path lead to, from the root of the drive
\* or from the current directory
ResolveComps(rooted, comps, follow) ==
    IF \E i \in 1..Len(comps) : comps[i] = <<".", ".">>
    THEN WalkPath("root", Collapse(IF rooted THEN <<>> ELSE NodeComps(cwd), comps),
                  follow)
    ELSE WalkPath(IF rooted THEN "root" ELSE cwd, comps, follow)

\* the node a path names, NoNode when it names none
Resolve(p, follow) == ResolveComps(IsRooted(p), Components(p), follow)

\* os.path.exists(p)
exists(p) == Resolve(p, TRUE) # NoNode

\* os.path.isdir(p)
isdir(p) == Resolve(p, TRUE) # NoNode /\ fs[Resolve(p, TRUE)].kind = "dir"

\* os.path.islink(p)
islink(p) == Resolve(p, FALSE) # NoNode /\ fs[Resolve(p, FALSE)].kind = "link"

\* os.path.getsize(p): the size (of a directory: 0), or the OSError it raises
getsize(p) ==
    LET n == Resolve(p, TRUE)
    IN  IF n = NoNode \/ (fs[n].kind = "file" /\ ~fs[n].ok)
        THEN [ok |-> FALSE, size |-> 0]
        ELSE [ok |-> TRUE, size |-> fs[n].size]

\* os.access(p, os.W_OK)
access_W_OK(p) == Resolve(p, TRUE) # NoNode /\ fs[Resolve(p, TRUE)].writable

(***************************************************************************)
(* utils.py                                                                *)
(***************************************************************************)
\* the forbidden characters without the colon
forbidden_chars_without_colon == {"/", "*", "?", "\"", "<", ">", "|"}

forbidden_chars == {"/", ":", "*", "?", "\"", "<", ">", "|"}
MaxPathLen == 260

\* validate_windows_path without the check of the length of the path
validate_without_length(p) ==
    /\ \A i \in 1..Len(p) : p[i] \notin forbidden_chars
    /\ exists(p)

\* validate_windows_path(path)[0]
validate_windows_path(p) ==
    /\ \A i \in 1..Len(p) : p[i] \notin forbidden_chars
    /\ Len(p) <= MaxPathLen
    /\ exists(p)

\* validate_windows_path(path): the pair it returns, the message by its kind
validate_result(p) ==
    IF \E i \in 1..Len(p) : p[i] \in forbidden_chars
    THEN [ok |-> FALSE, message |-> "forbidden character"]
    ELSE IF Len(p) > MaxPathLen
    THEN [ok |-> FALSE, message |-> "longer than 260"]
    ELSE IF ~exists(p)
    THEN [ok |-> FALSE, message |-> "does not exist"]
    ELSE [ok |-> TRUE, message |-> ""]

\* the unit of format_size were its thresholds powers of 1000
UnitOfDecimal(size_bytes) ==
    IF size_bytes < 1000 THEN "B"
    ELSE IF size_bytes < 1000 * 1000 THEN "KB"
    ELSE IF size_bytes < 1000 * 1000 * 1000 THEN "MB"
    ELSE "GB"

\* format_size(size_bytes): the unit its tests choose
UnitOf(size_bytes) ==
    IF size_bytes < 1024 THEN "B"
    ELSE IF size_bytes < 1024 * 1024 THEN "KB"
    ELSE IF size_bytes < 1024 * 1024 * 1024 THEN "MB"
    ELSE "GB"

\* round(size_bytes / unit, 1) in tenths, for a unit that is a power of
\* 1024: round gives the nearest tenth and, of two equally near, the even
\* one.  The product with 10 is taken in two parts to stay within 32 bits.
Tenths(size_bytes, unit) ==
    LET q    == size_bytes \div unit
        r    == size_bytes % unit
        u1   == unit \div 1024
        a    == (r \div 1024) * 10 + ((r % 1024) * 10) \div 1024
        b    == ((r % 1024) * 10) % 1024
        down == q * 10 + a \div u1
        rest == (a % u1) * 1024 + b
        half == unit \div 2
    IN  IF rest > half \/ (rest = half /\ down % 2 = 1) THEN down + 1 ELSE down

\* format_size(size_bytes): the number before the unit, in tenths where it
\* is printed with a decimal, and the unit
format_size(size_bytes) ==
    LET unit == UnitOf(size_bytes)
    IN  IF unit = "B"
        THEN [number |-> size_bytes, decimal |-> FALSE, unit |-> unit]
        ELSE [number |-> Tenths(size_bytes,
                                IF unit = "KB" THEN 1024
                                ELSE IF unit = "MB" THEN 1024 * 1024
                                ELSE 1024 * 1024 * 1024),
              decimal |-> TRUE, unit |-> unit]

\* whether the path is the root of a drive as get_parent_path tests it
IsDriveRoot(p) == Len(p) = 3 /\ EndsWith(p, <<":", "\\">>)

\* utils.get_parent_path(path), os.name being 'nt': the branch for an empty
\* parent computes a value and drops it
get_parent_path(p) == IF IsDriveRoot(p) THEN p ELSE dirname(p)

\* str(child) for a child of pathlib.Path(p)
ChildStr(p, nm) ==
    LET base == normpath(p)
    IN  IF base = <<".">> THEN nm
        ELSE IF IsSep(base[Len(base)]) THEN base \o nm
        ELSE base \o <<"\\">> \o nm

\* safe_windows_listdir(path): [] when iterdir raises
safe_windows_listdir(p) ==
    LET n == Resolve(p, TRUE)
    IN  IF n = NoNode \/ fs[n].kind # "dir" \/ ~fs[n].ok THEN <<>>
        ELSE [i \in 1..Len(Children(n)) |-> ChildStr(p, fs[Children(n)[i]].name)]

\* is_hidden_windows_file(path): GetFileAttributesW answers -1 for a path it
\* cannot open, and -1 & 2 is not zero
is_hidden_windows_file(p) ==
    LET n == Resolve(p, FALSE)
    IN  IF n = NoNode THEN TRUE ELSE fs[n].hidden

(***************************************************************************)
(* navigation.py                                                           *)
(***************************************************************************)
\* the strings 'file' and 'directory'
TypeFile == <<"f", "i", "l", "e">>
TypeDirectory == <<"d", "i", "r", "e", "c", "t", "o", "r", "y">>

\* one dictionary of list_directory
Entry(p, item) ==
    LET full_path == join(p, item)
    IN  [name |-> item,
         type |-> IF isdir(full_path) THEN TypeDirectory ELSE TypeFile,
         hidden |-> is_hidden_windows_file(full_path)]

\* list_directory(path)
list_directory(p) ==
    IF ~validate_windows_path(p) THEN [success |-> FALSE, items |-> <<>>]
    ELSE IF ~exists(p) THEN [success |-> FALSE, items |-> <<>>]
    ELSE LET items == safe_windows_listdir(p)
         IN  [success |-> TRUE,
              items |-> [i \in 1..Len(items) |-> Entry(p, items[i])]]

\* the drive of os.getcwd(): get_current_drive()
CurrentDrive == <<"C", ":">>

\* the drive a second bit of GetLogicalDrives stands for
OtherDrive == <<"D", ":">>

\* what list_available_drives can return: [] when the call raises, else the
\* drives of the machine
DriveLists == {<<>>, <<CurrentDrive>>, <<CurrentDrive, OtherDrive>>}

\* os.path.exists of the root of a drive: the tree is the current drive, and
\* another drive has a root when it is ready
drive_exists(drive, ready) == IF drive = CurrentDrive THEN exists(<<"\\">>) ELSE ready

\* drives.index(current_drive), 0 when it raises (positions from 0)
DriveIndex(drives, drive) ==
    IF \E i \in 1..Len(drives) : drives[i] = drive
    THEN (CHOOSE i \in 1..Len(drives) :
              drives[i] = drive /\ \A j \in 1..(i - 1) : drives[j] # drive) - 1
    ELSE 0

\* move_up(current_path), list_available_drives returning drives
move_up(current_path, drives, ready) ==
    LET parent_path   == get_parent_path(current_path)
        current_drive == IF DriveOf(current_path) # <<>> THEN DriveOf(current_path)
                         ELSE CurrentDrive
        new_drive     == drives[((DriveIndex(drives, current_drive) + 1) % Len(drives)) + 1]
    IN  IF parent_path # current_path
        THEN (IF validate_windows_path(parent_path) THEN parent_path ELSE current_path)
        ELSE IF drives = <<>> THEN current_path
        ELSE IF Len(drives) = 1 THEN current_path
        ELSE IF ~drive_exists(new_drive, ready) THEN current_path
        ELSE new_drive \o <<"\\">>

\* move_down(current_path, target_dir)
move_down(current_path, target_dir) ==
    LET new_path == join(current_path, target_dir)
    IN  IF ~validate_windows_path(new_path) THEN [success |-> FALSE, path |-> current_path]
        ELSE IF ~isdir(new_path) THEN [success |-> FALSE, path |-> current_path]
        ELSE [success |-> TRUE, path |-> new_path]

(***************************************************************************)
(* analysis.py: the five walks.  A frame of the stack is one activation of *)
(* the recursive function: its path, the items its loop has not reached,   *)
(* and (count_files) its total_files.                                      *)
(***************************************************************************)
Phases == <<"count_files", "count_bytes", "types", "attrs", "largest">>

Frame(p, items) == [path |-> p, items |-> items, total |-> 0]

Top == stack[Len(stack)]
Item == Top.items[1]
\* item_path = os.path.join(current_path, item['name'])
ItemPath == join(Top.path, Item.name)

\* the stack with the item at hand consumed
Consumed == [stack EXCEPT ![Len(stack)].items = Tail(@)]

\* the stack after a recursive call on p; a call whose listing fails returns
\* at once and leaves no frame
Descend(p) ==
    LET r == list_directory(p)
    IN  IF r.success THEN Append(Consumed, Frame(p, r.items)) ELSE Consumed

\* history: no file processed yet; else the file, whether the window was full
\* and its smallest size before the file, and the window before the file
NoItem == [name |-> <<>>, kind |-> "none", size |-> 0, full |-> FALSE, min |-> 0,
           before |-> <<>>]

\* history: the real file behind path p is counted once more
Counted(p) ==
    LET n == Resolve(p, TRUE)
    IN  IF n = NoNode THEN visits ELSE [visits EXCEPT ![n] = @ + 1]

NoVisits == [n \in NodeIds |-> 0]

\* the fixed deny-list of count_bytes
system_files ==
    {<<"p", "a", "g", "e", "f", "i", "l", "e", ".", "s", "y", "s">>,
     <<"h", "i", "b", "e", "r", "f", "i", "l", ".", "s", "y", "s">>,
     <<"s", "w", "a", "p", "f", "i", "l", "e", ".", "s", "y", "s">>}

\* 'без расширения', the bucket of the names without a dot
no_extension == <<"no-extension">>

\* the extension collect_extensions derives from a name
ExtOf(filename) ==
    IF HasChar(filename, ".")
    THEN <<".">> \o SubSeq(Lower(filename), LastIndex(filename, ".") + 1, Len(filename))
    ELSE no_extension

\* lines 101-110: the categories in the order of the dictionary
windows_extension_categories ==
    <<[name |-> "executables",
      exts |-> {<<".", "e", "x", "e">>, <<".", "d", "l", "l">>,
                <<".", "m", "s", "i">>, <<".", "s", "y", "s">>,
                <<".", "c", "o", "m">>}],
     [name |-> "scripts",
      exts |-> {<<".", "b", "a", "t">>, <<".", "c", "m", "d">>,
                <<".", "p", "s", "1">>, <<".", "v", "b", "s">>,
                <<".", "j", "s">>}],
     [name |-> "office_docs",
      exts |-> {<<".", "d", "o", "c">>, <<".", "d", "o", "c", "x">>,
                <<".", "x", "l", "s">>, <<".", "x", "l", "s", "x">>,
                <<".", "p", "p", "t">>, <<".", "p", "p", "t", "x">>}],
     [name |-> "archives",
      exts |-> {<<".", "z", "i", "p">>, <<".", "r", "a", "r">>,
                <<".", "7", "z">>, <<".", "c", "a", "b">>,
                <<".", "i", "s", "o">>}],
     [name |-> "system_files",
      exts |-> {<<".", "i", "n", "i">>, <<".", "i", "n", "f">>,
                <<".", "r", "e", "g">>, <<".", "d", "m", "p">>,
                <<".", "l", "o", "g">>}],
     [name |-> "shortcuts",
      exts |-> {<<".", "l", "n", "k">>, <<".", "u", "r", "l">>}],
     [name |-> "drivers",
      exts |-> {<<".", "d", "r", "v">>, <<".", "s", "y", "s">>,
                <<".", "v", "x", "d">>}],
     [name |-> "media",
      exts |-> {<<".", "w", "m", "v">>, <<".", "w", "m", "a">>,
                <<".", "a", "s", "f">>}]>>

\* lines 113-115
all_windows_extensions ==
    UNION {windows_extension_categories[i].exts :
              i \in 1..Len(windows_extension_categories)}

RECURSIVE LastCategory(_, _, _)
\* the loop of lines 158-161 without its break, from category i on
LastCategory(ext, i, category) ==
    IF i > Len(windows_extension_categories) THEN category
    ELSE LastCategory(ext, i + 1,
                      IF ext \in windows_extension_categories[i].exts
                      THEN windows_extension_categories[i].name ELSE category)

\* the category of an extension when the loop does not break
CategoryWithoutBreak(ext) == LastCategory(ext, 1, "other")

RECURSIVE FirstCategory(_, _)
\* the loop of lines 158-161 from category i on
FirstCategory(ext, i) ==
    IF i > Len(windows_extension_categories) THEN "other"
    ELSE IF ext \in windows_extension_categories[i].exts
    THEN windows_extension_categories[i].name
    ELSE FirstCategory(ext, i + 1)

\* lines 154-161: the category of an extension
CategoryOf(ext) == FirstCategory(ext, 1)

\* extensions_stats[ext] set anew for every file, not updated
AddToBucketOverwrite(stats, ext, file_size) ==
    LET one == [ext |-> ext, count |-> 1, total_size |-> file_size,
                category |-> CategoryOf(ext),
                is_windows |-> ext \in all_windows_extensions]
    IN  IF \E i \in 1..Len(stats) : stats[i].ext = ext
        THEN [i \in 1..Len(stats) |-> IF stats[i].ext = ext THEN one ELSE stats[i]]
        ELSE Append(stats, one)

\* lines 154-175: extensions_stats[ext] updated for one file of file_size bytes
AddToBucket(stats, ext, file_size) ==
    LET category   == CategoryOf(ext)
        is_windows == ext \in all_windows_extensions
    IN  IF \E i \in 1..Len(stats) : stats[i].ext = ext
        THEN [i \in 1..Len(stats) |->
                IF stats[i].ext = ext
                THEN [stats[i] EXCEPT !.count = @ + 1, !.total_size = @ + file_size,
                                      !.category = category,
                                      !.is_windows = is_windows]
                ELSE stats[i]]
        ELSE Append(stats, [ext |-> ext, count |-> 1, total_size |-> file_size,
                            category |-> category, is_windows |-> is_windows])

RECURSIVE InsertDesc(_, _)
\* the pair x = <<key, value>> put into the descending sequence s behind every
\* pair whose key is not smaller: one step of a stable sort with reverse=True
InsertDesc(s, x) ==
    IF s = <<>> THEN <<x>>
    ELSE IF s[1][1] >= x[1] THEN <<s[1]>> \o InsertDesc(Tail(s), x)
    ELSE <<x>> \o s

RECURSIVE SortPairsDesc(_)
SortPairsDesc(s) ==
    IF s = <<>> THEN <<>>
    ELSE InsertDesc(SortPairsDesc(SubSeq(s, 1, Len(s) - 1)), s[Len(s)])

\* sorted(s, key=..., reverse=True) for the keys keys[i] of s[i]
SortDesc(s, keys) ==
    LET sorted == SortPairsDesc([i \in 1..Len(s) |-> <<keys[i], s[i]>>])
    IN  [i \in 1..Len(s) |-> sorted[i][2]]

\* sorted(...) by count with reverse=True, the buckets of one count in the
\* reverse of the order they had
SortByCountTiesReversed(stats) ==
    LET back == [i \in 1..Len(stats) |-> stats[Len(stats) + 1 - i]]
    IN  SortDesc(back, [i \in 1..Len(back) |-> back[i].count])

\* sorted(result.items(), key=get_item_count, reverse=True)
SortByCount(stats) == SortDesc(stats, [i \in 1..Len(stats) |-> stats[i].count])

\* the buckets the report of the file types prints
top_types == 5

\* sorted(types_stats.items(), key=get_item_count, reverse=True)[:5]
TopTypes(types_stats) ==
    LET sorted_items == SortByCount(types_stats)
    IN  SubSeq(sorted_items, 1,
               IF Len(sorted_items) > top_types THEN top_types
               ELSE Len(sorted_items))

\* file_list.sort(key=get_file_size, reverse=True)
SortBySize(file_list) ==
    SortDesc(file_list, [i \in 1..Len(file_list) |-> file_list[i].size])

max_files == 3

\* the body of find_large_files without its sort: the record appended, and
\* the last record popped when there are too many
KeepFirst(file_list, rec) ==
    LET longer == Append(file_list, rec)
    IN  IF Len(longer) > max_files THEN SubSeq(longer, 1, Len(longer) - 1)
        ELSE longer

\* the body of find_large_files for one readable file
KeepLargest(file_list, rec) ==
    LET sorted == SortBySize(Append(file_list, rec))
    IN  IF Len(sorted) > max_files THEN SubSeq(sorted, 1, Len(sorted) - 1)
        ELSE sorted

sys_suffixes == {<<".", "s", "y", "s">>, <<".", "d", "l", "l">>, <<".", "d", "r", "v">>}
sys_dirs == {<<"w", "i", "n", "d", "o", "w", "s">>,
             <<"s", "y", "s", "t", "e", "m", "3", "2">>,
             <<"w", "i", "n", "n", "t">>}
archive_suffixes == {<<".", "z", "i", "p">>, <<".", "r", "a", "r">>, <<".", "7", "z">>,
                     <<".", "t", "a", "r">>, <<".", "g", "z">>, <<".", "c", "a", "b">>}

IsHiddenFile(p) == is_hidden_windows_file(p)
IsSystemFile(nm, p) ==
    LET filename == Lower(nm)
        dirn     == Lower(dirname(p))
    IN  /\ \E x \in sys_suffixes : EndsWith(filename, x)
        /\ \E w \in sys_dirs : Contains(dirn, w)
IsReadonlyFile(p) == ~access_W_OK(p)
IsArchiveFile(nm) ==
    LET filename == Lower(nm)
    IN  \E x \in archive_suffixes : EndsWith(filename, x)

Bump(b) == IF b THEN 1 ELSE 0

NoAcc == [total_size |-> 0, extensions_stats |-> <<>>,
          stats |-> [hidden |-> 0, system |-> 0, readonly |-> 0, archive |-> 0],
          file_list |-> <<>>, success |-> FALSE, total_files |-> 0,
          visited |-> {}, result |-> <<>>,
          roots |-> <<>>, ri |-> 0, system_files |-> <<>>]

NoOut == [ran |-> {}, ok |-> TRUE,
          files |-> [success |-> FALSE, n |-> 0],
          bytes |-> [success |-> FALSE, n |-> 0],
          types |-> [success |-> FALSE, stats |-> <<>>],
          top |-> <<>>,
          attrs |-> NoAcc.stats,
          largest |-> <<>>,
          found |-> <<>>,
          listing |-> [success |-> FALSE, items |-> <<>>],
          valid |-> [ok |-> FALSE, message |-> ""],
          formatted |-> [number |-> 0, decimal |-> FALSE, unit |-> ""],
          moved |-> [command |-> "", from |-> <<>>, target |-> <<>>,
                     success |-> FALSE, to |-> <<>>],
          moves |-> 0]

\* the walk that follows the walks already run
NextPhase == Phases[Cardinality(out.ran) + 1]

\* a call may be made: the stack of calls has room
CanCall == Len(stack) < MaxDepth

\* show_windows_directory_stats(path), up to its first walk
show_windows_directory_stats ==
    /\ pc = "idle"
    /\ cmd = "stats"
    /\ IF exists(root)
       THEN pc' = "between" /\ out' = out
       ELSE pc' = "done" /\ out' = [out EXCEPT !.ok = FALSE]
    /\ tick' = 1 - tick
    /\ UNCHANGED <<fs, cwd, root, cmd, arg, phase, stack, acc, visits, last, run, first>>

\* the call of the next walk on the root path: count_files(path),
\* count_bytes(path), analyze_windows_file_types(path),
\* get_windows_file_attributes_stats(path), find_large_files(path, [], 3)
StartWalk ==
    /\ pc = "between"
    /\ LET r == list_directory(root)
           listed == exists(root) /\ r.success
       IN  /\ phase' = NextPhase
           /\ stack' = IF listed THEN <<Frame(root, r.items)>> ELSE <<>>
           /\ acc' = [NoAcc EXCEPT !.success =
                         IF NextPhase = "count_files" THEN listed ELSE exists(root)]
    /\ pc' = "walk"
    /\ visits' = NoVisits
    /\ last' = NoItem
    /\ tick' = 1 - tick
    /\ UNCHANGED <<fs, cwd, root, cmd, arg, out, run, first>>

\* one turn of the loop of count_files
count_files ==
    /\ pc = "walk" /\ phase = "count_files"
    /\ stack # <<>> /\ Top.items # <<>>
    /\ IF Item.type = TypeDirectory
       THEN /\ CanCall
            /\ stack' = IF exists(ItemPath) THEN Descend(ItemPath) ELSE Consumed
            /\ visits' = visits
       ELSE /\ stack' = [Consumed EXCEPT ![Len(stack)].total = @ + 1]
            /\ visits' = Counted(ItemPath)
    /\ tick' = 1 - tick
    /\ UNCHANGED <<fs, cwd, root, cmd, arg, pc, phase, acc, out, last, run, first>>

\* one turn of the loop of count_bytes.recursive_calc
recursive_calc ==
    /\ pc = "walk" /\ phase = "count_bytes"
    /\ stack # <<>> /\ Top.items # <<>>
    /\ IF islink(ItemPath)
       THEN stack' = Consumed /\ UNCHANGED <<acc, visits>>
       ELSE IF Item.type = TypeDirectory
       THEN CanCall /\ stack' = Descend(ItemPath) /\ UNCHANGED <<acc, visits>>
       ELSE IF Lower(Item.name) \in system_files
       THEN stack' = Consumed /\ UNCHANGED <<acc, visits>>
       ELSE /\ stack' = Consumed
            /\ IF getsize(ItemPath).ok
               THEN /\ acc' = [acc EXCEPT !.total_size = @ + getsize(ItemPath).size]
                    /\ visits' = Counted(ItemPath)
               ELSE UNCHANGED <<acc, visits>>
    /\ tick' = 1 - tick
    /\ UNCHANGED <<fs, cwd, root, cmd, arg, pc, phase, out, last, run, first>>

\* one turn of the loop of analyze_windows_file_types.collect_extensions
collect_extensions ==
    /\ pc = "walk" /\ phase = "types"
    /\ stack # <<>> /\ Top.items # <<>>
    /\ IF Item.type = TypeDirectory
       THEN CanCall /\ stack' = Descend(ItemPath) /\ UNCHANGED <<acc, visits>>
       ELSE /\ stack' = Consumed
            /\ acc' = [acc EXCEPT !.extensions_stats =
                          AddToBucket(@, ExtOf(Item.name),
                                      IF getsize(ItemPath).ok
                                      THEN getsize(ItemPath).size ELSE 0)]
            /\ visits' = Counted(ItemPath)
    /\ tick' = 1 - tick
    /\ UNCHANGED <<fs, cwd, root, cmd, arg, pc, phase, out, last, run, first>>

\* one turn of the loop of get_windows_file_attributes_stats.collect_attributes
collect_attributes ==
    /\ pc = "walk" /\ phase = "attrs"
    /\ stack # <<>> /\ Top.items # <<>>
    /\ IF Item.type = TypeFile
       THEN /\ stack' = Consumed
            /\ acc' = [acc EXCEPT
                  !.stats.hidden = @ + Bump(IsHiddenFile(ItemPath)),
                  !.stats.system = @ + Bump(IsSystemFile(Item.name, ItemPath)),
                  !.stats.readonly = @ + Bump(IsReadonlyFile(ItemPath)),
                  !.stats.archive = @ + Bump(IsArchiveFile(Item.name))]
            /\ visits' = Counted(ItemPath)
       ELSE CanCall /\ stack' = Descend(ItemPath) /\ UNCHANGED <<acc, visits>>
    /\ tick' = 1 - tick
    /\ UNCHANGED <<fs, cwd, root, cmd, arg, pc, phase, out, last, run, first>>

\* one turn of the loop of show_windows_directory_stats.find_large_files
find_large_files ==
    /\ pc = "walk" /\ phase = "largest"
    /\ stack # <<>> /\ Top.items # <<>>
    /\ IF Item.type = TypeFile
       THEN /\ stack' = Consumed
            /\ IF getsize(ItemPath).ok
               THEN /\ acc' = [acc EXCEPT !.file_list =
                                  KeepLargest(@, [path |-> ItemPath,
                                                  name |-> Item.name,
                                                  size |-> getsize(ItemPath).size])]
                    /\ visits' = Counted(ItemPath)
                    /\ last' = [name |-> Item.name, kind |-> "file",
                                size |-> getsize(ItemPath).size,
                                full |-> Len(acc.file_list) = max_files,
                                min |-> IF acc.file_list = <<>> THEN 0
                                        ELSE acc.file_list[Len(acc.file_list)].size,
                                before |-> acc.file_list]
               ELSE UNCHANGED <<acc, visits, last>>
       ELSE CanCall /\ stack' = Descend(ItemPath) /\ UNCHANGED <<acc, visits, last>>
    /\ tick' = 1 - tick
    /\ UNCHANGED <<fs, cwd, root, cmd, arg, pc, phase, out, run, first>>

\* the loop of an activation is over: it returns to its caller
Return ==
    /\ pc = "walk"
    /\ stack # <<>> /\ Top.items = <<>>
    /\ LET rest == SubSeq(stack, 1, Len(stack) - 1)
       IN  IF phase = "count_files"
           THEN IF rest = <<>>
                THEN stack' = rest /\ acc' = [acc EXCEPT !.total_files = Top.total]
                ELSE /\ stack' = [rest EXCEPT ![Len(rest)].total = @ + Top.total]
                     /\ acc' = acc
           ELSE stack' = rest /\ acc' = acc
    /\ tick' = 1 - tick
    /\ UNCHANGED <<fs, cwd, root, cmd, arg, pc, phase, out, visits, last, run, first>>

\* the walk has returned to show_windows_directory_stats
FinishWalk ==
    /\ pc = "walk"
    /\ stack = <<>>
    /\ out' = [out EXCEPT
          !.ran = @ \cup {phase},
          !.files = IF phase = "count_files"
                    THEN [success |-> acc.success, n |-> acc.total_files] ELSE @,
          !.bytes = IF phase = "count_bytes"
                    THEN [success |-> acc.success, n |-> acc.total_size] ELSE @,
          !.types = IF phase = "types"
                    THEN [success |-> acc.success,
                          stats |-> SortByCount(acc.extensions_stats)] ELSE @,
          !.top = IF phase = "types" /\ acc.success
                  THEN TopTypes(SortByCount(acc.extensions_stats)) ELSE @,
          !.attrs = IF phase = "attrs" THEN acc.stats ELSE @,
          !.largest = IF phase = "largest" THEN acc.file_list ELSE @]
    /\ pc' = IF phase = Phases[Len(Phases)] THEN "done" ELSE "between"
    /\ tick' = 1 - tick
    /\ UNCHANGED <<fs, cwd, root, cmd, arg, phase, stack, acc, visits, last, run, first>>

(***************************************************************************)
(* search.py                                                               *)
(***************************************************************************)
\* the list of line 17 without its "."
regex_special_without_dot == {"^", "$", "+", "{", "}", "[", "]", "(", ")", "|", "\\"}

\* line 17
regex_special == {".", "^", "$", "+", "{", "}", "[", "]", "(", ")", "|", "\\"}

\* what the regular expression engine makes of an unescaped character
Unescaped(c) ==
    IF c = "." THEN [op |-> "dot", c |-> c]
    ELSE [op |-> "char", c |-> c]

\* lines 21-34: the regular expression built for one letter of the pattern
RegexOf(letter, case_sensitive) ==
    IF letter = "*" THEN [op |-> "star", c |-> letter]
    ELSE IF letter = "?" THEN [op |-> "dot", c |-> letter]
    ELSE LET cur == IF case_sensitive THEN letter ELSE LowerChar(letter)
         IN  IF cur \in regex_special THEN [op |-> "char", c |-> cur]
             ELSE Unescaped(cur)

\* reg_ex for the (stripped) pattern
Compile(pattern, case_sensitive) ==
    [i \in 1..Len(pattern) |-> RegexOf(pattern[i], case_sensitive)]

RECURSIVE MatchAt(_, _, _, _)
\* the position behind the match the backtracking engine prefers for
\* reg_ex[k..] at position i of s, 0 when there is none; (.)* is greedy
MatchAt(reg_ex, k, s, i) ==
    IF k > Len(reg_ex) THEN i
    ELSE IF reg_ex[k].op = "char"
    THEN IF i <= Len(s) /\ s[i] = reg_ex[k].c THEN MatchAt(reg_ex, k + 1, s, i + 1)
         ELSE 0
    ELSE IF reg_ex[k].op = "dot"
    THEN IF i <= Len(s) THEN MatchAt(reg_ex, k + 1, s, i + 1) ELSE 0
    ELSE LET fits == {j \in i..(Len(s) + 1) : MatchAt(reg_ex, k + 1, s, j) # 0}
         IN  IF fits = {} THEN 0
             ELSE MatchAt(reg_ex, k + 1, s,
                          CHOOSE j \in fits : \A x \in fits : x <= j)

RECURSIVE finditer(_, _, _)
\* re.finditer(reg_ex, s) from position pos on: the spans <<start, end>> of
\* the matches, leftmost first and not overlapping
finditer(reg_ex, s, pos) ==
    LET starts == {i \in pos..(Len(s) + 1) : MatchAt(reg_ex, 1, s, i) # 0}
    IN  IF starts = {} THEN <<>>
        ELSE LET i == CHOOSE x \in starts : \A y \in starts : x <= y
                 e == MatchAt(reg_ex, 1, s, i)
             IN  <<(<<i, e>>)>> \o
                 (IF e > Len(s) THEN <<>>
                  ELSE finditer(reg_ex, s, IF e = i THEN i + 1 ELSE e))

\* lines 54-70: how often the name of one entry is appended to result_files
Appended(pattern, name, case_sensitive) ==
    LET file_name     == Strip(name)
        name_to_check == IF case_sensitive THEN file_name ELSE Lower(file_name)
        found == finditer(Compile(Strip(pattern), case_sensitive), name_to_check, 1)
    IN  IF file_name = <<>> THEN 0
        ELSE Cardinality({i \in 1..Len(found) :
                             found[i] = <<1, Len(name_to_check) + 1>>})

\* path.replace("/", "\\")
Backslashes(p) == [i \in 1..Len(p) |-> IF p[i] = "/" THEN "\\" ELSE p[i]]

\* os.path.normpath(os.path.join(current, name).replace("/", "\\"))
FullPath(current, name) == normpath(Backslashes(join(current, name)))

\* whether `for dir_name in dirs` can run: dirs is the first value of
\* list_directory's pair
Iterable(dirs) == dirs \notin BOOLEAN

\* the paths the loop over dirs pushes
Pushed(current, dirs) ==
    LET kept == SelectSeq(dirs, LAMBDA d : Strip(d) # <<>>)
    IN  [i \in 1..Len(kept) |-> FullPath(current, Strip(kept[i]))]

\* the entries of files with a name that is not blank
Named(files) == SelectSeq(files, LAMBDA f : Strip(f.name) # <<>>)

RECURSIVE Repeat(_, _)
Repeat(x, n) == IF n = 0 THEN <<>> ELSE <<x>> \o Repeat(x, n - 1)

RECURSIVE Flatten(_)
Flatten(ss) == IF ss = <<>> THEN <<>> ELSE ss[1] \o Flatten(Tail(ss))

\* round(size_bytes / (1024 * 1024), 2), in hundredths of a megabyte
size_mb(size_bytes) ==
    LET mb == 1024 * 1024
        q  == (size_bytes * 100) \div mb
        r  == (size_bytes * 100) % mb
    IN  IF 2 * r > mb \/ (2 * r = mb /\ q % 2 = 1) THEN q + 1 ELSE q

\* int(min_size_mb * 1024 * 1024)
min_bytes(min_size_mb) == min_size_mb * 1024 * 1024

\* the record of lines 193-197
Info(full_path, size_bytes, file_type) ==
    [path |-> full_path, size_mb |-> size_mb(size_bytes), type |-> file_type]

\* what one turn of the while loop of a search adds to its result
SearchHits(current, files) ==
    LET named == Named(files)
    IN  IF phase = "find_files"
        THEN Flatten([i \in 1..Len(named) |->
                 Repeat(FullPath(current, Strip(named[i].name)),
                        Appended(arg.pattern, named[i].name, arg.case_sensitive))])
        ELSE IF phase = "find_by_ext"
        THEN Flatten([i \in 1..Len(named) |->
                 Repeat(FullPath(current, Strip(named[i].name)),
                        Cardinality({k \in 1..Len(arg.extensions) :
                            Lower(Strip(named[i].type)) = arg.extensions[k]}))])
        ELSE LET there == SelectSeq(named,
                              LAMBDA f : exists(FullPath(current, Strip(f.name))))
                 big   == SelectSeq(there,
                              LAMBDA f : getsize(FullPath(current, Strip(f.name))).size
                                             >= min_bytes(arg.min_size_mb))
             IN  [i \in 1..Len(big) |->
                    Info(FullPath(current, Strip(big[i].name)),
                         getsize(FullPath(current, Strip(big[i].name))).size,
                         Strip(big[i].type))]

\* find_large_files_windows reads a size outside any try: whether
\* os.path.getsize raises in the loop over files
SizeRaises(current, files) ==
    /\ phase = "find_large"
    /\ \E i \in 1..Len(Named(files)) :
          LET full_path == FullPath(current, Strip(Named(files)[i].name))
          IN  exists(full_path) /\ ~getsize(full_path).ok

\* extensions[i] after the loop of lines 93-98
NormalizeExt(e) ==
    LET x == Lower(Strip(e))
    IN  IF x = <<>> THEN x ELSE IF x[1] # "." THEN <<".">> \o x ELSE x

Searches == {"find_files", "find_by_ext", "find_large"}

\* find_files_windows, find_by_windows_extension, find_large_files_windows:
\* the lines before the while loop
StartSearch ==
    /\ pc = "idle"
    /\ cmd \in Searches
    /\ stack' = <<normpath(Backslashes(Strip(root)))>>
    /\ arg' = IF cmd = "find_by_ext"
              THEN [arg EXCEPT !.extensions =
                       [i \in 1..Len(@) |-> NormalizeExt(@[i])]]
              ELSE arg
    /\ acc' = NoAcc
    /\ pc' = "search"
    /\ phase' = cmd
    /\ tick' = 1 - tick
    /\ UNCHANGED <<fs, cwd, root, cmd, out, visits, last, run, first>>

\* result.sort(key=lambda x: x["size_mb"], reverse=True)
SortBySizeMb(result) ==
    SortDesc(result, [i \in 1..Len(result) |-> result[i].size_mb])

\* what a search returns: the search for large files sorts its result
Returned(result) ==
    IF phase = "find_large" THEN SortBySizeMb(result) ELSE result

\* get_windows_special_folders(): the keys of the system folders, which are
\* set whatever the environment holds; the keys of the user folders are not
\* read by the search and are left out
get_windows_special_folders(env) ==
    [Windows         |-> env.SystemRoot,
     System32        |-> join(env.SystemRoot, <<"S", "y", "s", "t", "e", "m", "3", "2">>),
     SysWOW64        |-> join(env.SystemRoot, <<"S", "y", "s", "W", "O", "W", "6", "4">>),
     ProgramFiles    |-> env.ProgramFiles,
     ProgramFilesX86 |-> env.ProgramFilesX86]

\* lines 226-240 of find_windows_system_files: the list roots
SystemRoots(special, path) ==
    LET keys  == <<"Windows", "System32", "SysWOW64", "ProgramFiles",
                   "ProgramFilesX86">>
        held  == SelectSeq(keys, LAMBDA k : k \in DOMAIN special)
        roots == [i \in 1..Len(held) |-> special[held[i]]]
    IN  IF Len(roots) = 0 THEN <<path>> ELSE roots

\* lines 245-248: the root the loop searches, <<>> for one it passes over
SearchRoot(r) == normpath(Backslashes(Strip(r)))

\* the index of the first root after roots[i] that the loop searches, 0 when
\* there is none
NextRoot(roots, i) ==
    LET later == {j \in (i + 1)..Len(roots) : Len(SearchRoot(roots[j])) # 0}
    IN  IF later = {} THEN 0 ELSE CHOOSE j \in later : \A k \in later : j <= k

\* the extensions find_windows_system_files searches for
system_extensions == <<(<<".", "e", "x", "e">>), (<<".", "d", "l", "l">>),
                       (<<".", "s", "y", "s">>)>>

\* find_windows_system_files(path), up to the first turn of the first search
find_windows_system_files ==
    /\ pc = "idle"
    /\ cmd = "find_system"
    /\ LET path  == normpath(Backslashes(Strip(root)))
           roots == SystemRoots(get_windows_special_folders(arg.env), path)
           ri    == NextRoot(roots, 0)
       IN  /\ acc' = [NoAcc EXCEPT !.roots = roots, !.ri = ri]
           /\ stack' = IF ri = 0 THEN <<>> ELSE <<SearchRoot(roots[ri])>>
           /\ pc' = IF ri = 0 THEN "done" ELSE "search"
           /\ out' = IF ri = 0 THEN [out EXCEPT !.ran = {"find_system"}] ELSE out
    /\ arg' = [arg EXCEPT !.extensions =
                  [i \in 1..Len(system_extensions) |->
                      NormalizeExt(system_extensions[i])]]
    /\ phase' = "find_by_ext"
    /\ tick' = 1 - tick
    /\ UNCHANGED <<fs, cwd, root, cmd, visits, last, run, first>>

\* the end of one turn of the while loop of a search, which raised or went
\* on to todo with the accumulator seen: the stack empty, the search returns
\* its result, and find_windows_system_files takes its next root
EndTurn(raises, todo, seen) ==
    LET returns == ~raises /\ todo = <<>>
        ri      == NextRoot(acc.roots, acc.ri)
        more    == returns /\ ri # 0
        found   == acc.system_files \o Returned(seen.result)
    IN  /\ stack' = IF more THEN <<SearchRoot(acc.roots[ri])>> ELSE todo
        /\ acc' = IF more
                  THEN [seen EXCEPT !.visited = {}, !.result = <<>>,
                                    !.system_files = found, !.ri = ri]
                  ELSE seen
        /\ pc' = IF raises THEN "raised"
                 ELSE IF returns /\ ~more THEN "done" ELSE pc
        /\ out' = IF returns /\ ~more
                  THEN [out EXCEPT !.ran = {cmd}, !.found = found]
                  ELSE out

\* one turn of the while loop of a search: the loop over files, then the
\* loop over dirs
SearchTurn ==
    /\ pc = "search"
    /\ stack # <<>>
    /\ LET current == normpath(Backslashes(stack[Len(stack)]))
           rest    == SubSeq(stack, 1, Len(stack) - 1)
           r       == list_directory(current)
           dirs    == r.success
           files   == r.items
           skip    == current \in acc.visited
           raises  == ~skip /\ (SizeRaises(current, files) \/ ~Iterable(dirs))
           todo    == IF skip \/ raises THEN rest ELSE rest \o Pushed(current, dirs)
           seen    == IF skip THEN acc
                      ELSE [acc EXCEPT
                              !.visited = @ \cup {current},
                              !.result = IF SizeRaises(current, files) THEN @
                                         ELSE @ \o SearchHits(current, files)]
       IN  EndTurn(raises, todo, seen)
    /\ tick' = 1 - tick
    /\ UNCHANGED <<fs, cwd, root, cmd, arg, phase, visits, last, run, first>>

(***************************************************************************)
(* The environment: the directory that could not be read is removed with    *)
(* everything under it, and the same command is given again.               *)
(***************************************************************************)
Denied(n) == fs[n].present /\ fs[n].kind = "dir" /\ ~fs[n].ok

RECURSIVE InDenied(_)
\* node n is an unreadable directory or lies under one
InDenied(n) ==
    /\ n # NoNode
    /\ fs[n].present
    /\ (Denied(n) \/ InDenied(fs[n].parent))

RemoveDenied ==
    /\ pc = "done"
    /\ cmd = "stats"
    /\ run = 1
    /\ \E n \in NodeIds : Denied(n)
    /\ fs' = [n \in NodeIds |-> IF InDenied(n) THEN Absent ELSE fs[n]]
    /\ first' = out
    /\ run' = 2
    /\ pc' = "idle"
    /\ phase' = "none"
    /\ out' = NoOut
    /\ acc' = NoAcc
    /\ visits' = NoVisits
    /\ last' = NoItem
    /\ tick' = 1 - tick
    /\ UNCHANGED <<cwd, root, cmd, arg, stack>>

Roots ==
    {[root |-> <<"\\", "t">>, cwd |-> "root"],
     [root |-> <<".">>, cwd |-> "t"],
     [root |-> <<"t">>, cwd |-> "root"],
     [root |-> <<"C", ":", "\\", "t">>, cwd |-> "root"],
     [root |-> <<"\\", "z">>, cwd |-> "root"]}

\* the environment variables get_windows_special_folders reads, all unset
NoEnv == [SystemRoot |-> <<>>, ProgramFiles |-> <<>>, ProgramFilesX86 |-> <<>>]

NoArg == [pattern |-> <<>>, case_sensitive |-> FALSE, extensions |-> <<>>,
          min_size_mb |-> 0, name |-> <<>>, sizes |-> <<>>, env |-> NoEnv,
          encountered |-> <<>>, size_bytes |-> 0, drives |-> <<>>, ready |-> FALSE]

\* the commands given, each with its argument
Commands ==
    {[cmd |-> "stats", arg |-> NoArg],
     [cmd |-> "find_files",
      arg |-> [NoArg EXCEPT !.pattern = <<"h", "*">>]],
     [cmd |-> "find_files",
      arg |-> [NoArg EXCEPT !.pattern = <<"*", "t", "*">>, !.case_sensitive = TRUE]],
     [cmd |-> "find_by_ext",
      arg |-> [NoArg EXCEPT !.extensions = <<(<<"s", "y", "s">>),
                                             (<<".", "Z", "I", "P">>)>>]],
     [cmd |-> "find_large", arg |-> NoArg]}

Init ==
    /\ fs \in Trees
    /\ \E r \in Roots : root = r.root /\ cwd = r.cwd
    /\ \E c \in Commands : cmd = c.cmd /\ arg = c.arg
    /\ pc = "idle"
    /\ phase = "none"
    /\ stack = <<>>
    /\ acc = NoAcc
    /\ out = NoOut
    /\ visits = NoVisits
    /\ last = NoItem
    /\ run = 1
    /\ first = NoOut
    /\ tick = 0

Next ==
    \/ show_windows_directory_stats
    \/ StartWalk
    \/ count_files
    \/ recursive_calc
    \/ collect_extensions
    \/ collect_attributes
    \/ find_large_files
    \/ Return
    \/ FinishWalk
    \/ StartSearch
    \/ SearchTurn
    \/ RemoveDenied

Spec == Init /\ [][Next]_vars

(***************************************************************************)
(* show_windows_directory_stats on the trees with a symbolic link from     *)
(* \t\d back to \t.  A step that can be taken is taken in the end: it is   *)
(* sequential code that nothing suspends.                                  *)
(***************************************************************************)
InitLoop ==
    /\ Init
    /\ cmd = "stats"
    /\ fs["l"].present /\ fs["l"].target = "t"

NextStats ==
    \/ show_windows_directory_stats
    \/ StartWalk
    \/ count_files
    \/ recursive_calc
    \/ collect_extensions
    \/ collect_attributes
    \/ find_large_files
    \/ Return
    \/ FinishWalk

\* the walk in progress has room for a call: then FinishWalk, Return or the
\* turn of the loop of the walk is enabled
CanStep == pc \in {"idle", "between"} \/ (pc = "walk" /\ CanCall)

\* a step is taken where one can be: every step of NextStats changes tick
Step == CanStep /\ tick' = 1 - tick

FairSpec == InitLoop /\ [][NextStats]_vars /\ WF_tick(Step)

(***************************************************************************)
(* The wildcard match of find_files_windows on patterns and names drawn    *)
(* from small alphabets, and on the examples of the specification.         *)
(***************************************************************************)
\* longest pattern and longest name drawn
MaxPattern == 3
MaxName == 3

PatternChars == {"a", "A", ".", "*", "?", " "}
NameChars == {"a", "A", ".", " "}

RECURSIVE Strings(_, _)
\* the strings over alphabet of at most n characters
Strings(alphabet, n) ==
    IF n = 0 THEN {<<>>}
    ELSE LET shorter == Strings(alphabet, n - 1)
         IN  shorter \cup {Append(x, c) : x \in shorter, c \in alphabet}

StarTxt == <<"*", ".", "t", "x", "t">>
FileQLog == <<"f", "i", "l", "e", "?", ".", "l", "o", "g">>
ATxt == <<"a", ".", "t", "x", "t">>
ATxtUpper == <<"A", ".", "T", "X", "T">>
ATxtx == <<"a", ".", "t", "x", "t", "x">>
File1Log == <<"f", "i", "l", "e", "1", ".", "l", "o", "g">>
File12Log == <<"f", "i", "l", "e", "1", "2", ".", "l", "o", "g">>

Patterns == Strings(PatternChars, MaxPattern) \cup {StarTxt, FileQLog}
Names == (Strings(NameChars, MaxName) \ {<<>>})
             \cup {ATxt, ATxtUpper, ATxtx, File1Log, File12Log}

InitMatch ==
    /\ fs = MkTree([f |-> <<>>, fsize |-> 1, h |-> FALSE, d |-> "none", g |-> FALSE,
                    gsize |-> 1, gok |-> TRUE, l |-> "none"])
    /\ cwd = "root"
    /\ root = <<"\\", "t">>
    /\ cmd = "match"
    /\ \E pat \in Patterns, cs \in BOOLEAN :
          arg = [NoArg EXCEPT !.pattern = pat, !.case_sensitive = cs]
    /\ pc = "idle"
    /\ phase = "none"
    /\ stack = <<>>
    /\ acc = NoAcc
    /\ out = NoOut
    /\ visits = NoVisits
    /\ last = NoItem
    /\ run = 1
    /\ first = NoOut
    /\ tick = 0

\* lines 54-70 of find_files_windows for one entry called name
MatchName ==
    /\ pc = "idle"
    /\ cmd = "match"
    /\ \E name \in Names :
          /\ arg' = [arg EXCEPT !.name = name]
          /\ out' = [out EXCEPT !.found =
                        Repeat(name, Appended(arg.pattern, name, arg.case_sensitive))]
    /\ pc' = "done"
    /\ tick' = 1 - tick
    /\ UNCHANGED <<fs, cwd, root, cmd, phase, stack, acc, visits, last, run, first>>

NextMatch == MatchName

MatchSpec == InitMatch /\ [][NextMatch]_vars

(***************************************************************************)
(* The records find_large_files_windows builds and the sort of its result, *)
(* on files whose sizes in bytes are drawn from a small set.               *)
(***************************************************************************)
\* most files found
MaxFound == 3

\* sizes around the rounding of a hundredth of a megabyte, and the 500 KB,
\* 1 MB and 2 MB of the examples
ByteSizes == {0, 1, 5242, 5243, 512000, 1048576, 2097152}

FoundNames == <<"a", "b", "c">>

InitSort ==
    /\ fs = MkTree([f |-> <<>>, fsize |-> 1, h |-> FALSE, d |-> "none", g |-> FALSE,
                    gsize |-> 1, gok |-> TRUE, l |-> "none"])
    /\ cwd = "root"
    /\ root = <<"\\", "t">>
    /\ cmd = "sort"
    /\ \E n \in 1..MaxFound, mb \in {0, 1} :
          \E sizes \in [1..n -> ByteSizes] :
             arg = [NoArg EXCEPT !.sizes = sizes, !.min_size_mb = mb]
    /\ pc = "idle"
    /\ phase = "none"
    /\ stack = <<>>
    /\ acc = NoAcc
    /\ out = NoOut
    /\ visits = NoVisits
    /\ last = NoItem
    /\ run = 1
    /\ first = NoOut
    /\ tick = 0

\* lines 187-198 of find_large_files_windows for the files a, b, c of the
\* sizes drawn, in the order of the listing, then the sort of line 213
SortLarge ==
    /\ pc = "idle"
    /\ cmd = "sort"
    /\ LET big == SelectSeq([i \in 1..Len(arg.sizes) |-> i],
                            LAMBDA i : arg.sizes[i] >= min_bytes(arg.min_size_mb))
           result == [k \in 1..Len(big) |->
                         Info(FullPath(root, <<FoundNames[big[k]]>>),
                              arg.sizes[big[k]], TypeFile)]
       IN  /\ acc' = [acc EXCEPT !.result = result]
           /\ out' = [out EXCEPT !.found = SortBySizeMb(result)]
    /\ pc' = "done"
    /\ tick' = 1 - tick
    /\ UNCHANGED <<fs, cwd, root, cmd, arg, phase, stack, visits, last, run, first>>

NextSort == SortLarge

SortSpec == InitSort /\ [][NextSort]_vars

(***************************************************************************)
(* find_windows_system_files on every tree, with the environment variables *)
(* unset, naming the directories \t and \t\d, or naming nothing that exists. *)
(***************************************************************************)
Envs ==
    {NoEnv,
     [NoEnv EXCEPT !.SystemRoot = <<"\\", "t">>],
     [NoEnv EXCEPT !.SystemRoot = <<"\\", "z">>],
     [NoEnv EXCEPT !.ProgramFiles = <<"\\", "t", "\\", "d">>],
     [SystemRoot |-> <<"\\", "t">>, ProgramFiles |-> <<"\\", "t", "\\", "d">>,
      ProgramFilesX86 |-> <<"\\", "z">>]}

\* the caller's path: \t, and \t\d given as d from \t
SystemPaths ==
    {[root |-> <<"\\", "t">>, cwd |-> "root"],
     [root |-> <<"d">>, cwd |-> "t"]}

InitSystem ==
    /\ fs \in Trees
    /\ \E r \in SystemPaths : root = r.root /\ cwd = r.cwd
    /\ cmd = "find_system"
    /\ \E env \in Envs : arg = [NoArg EXCEPT !.env = env]
    /\ pc = "idle"
    /\ phase = "none"
    /\ stack = <<>>
    /\ acc = NoAcc
    /\ out = NoOut
    /\ visits = NoVisits
    /\ last = NoItem
    /\ run = 1
    /\ first = NoOut
    /\ tick = 0

NextSystem ==
    \/ find_windows_system_files
    \/ SearchTurn

SystemSpec == InitSystem /\ [][NextSystem]_vars

(***************************************************************************)
(* show_windows_directory_stats on the tree \t\<directory>\<file>, the    *)
(* names of the directory and of the file drawn from a small alphabet.     *)
(***************************************************************************)
\* longest name of the directory and of the file
MaxDirName == 2
MaxFileName == 3

BucketChars == {"a", "B", "."}

\* the names of at most n characters a Windows directory can hold: not
\* empty, the last character not a dot
BucketNames(n) ==
    {x \in Strings(BucketChars, n) : x # <<>> /\ x[Len(x)] # "."}

InitBucket ==
    /\ \E dn \in BucketNames(MaxDirName), fn \in BucketNames(MaxFileName) :
          fs = [MkTree([f |-> <<>>, fsize |-> 1, h |-> FALSE, d |-> "ok",
                        g |-> TRUE, gsize |-> 1, gok |-> TRUE, l |-> "none"])
                   EXCEPT !["d"].name = dn, !["g"].name = fn]
    /\ cwd = "root"
    /\ root = <<"\\", "t">>
    /\ cmd = "stats"
    /\ arg = NoArg
    /\ pc = "idle"
    /\ phase = "none"
    /\ stack = <<>>
    /\ acc = NoAcc
    /\ out = NoOut
    /\ visits = NoVisits
    /\ last = NoItem
    /\ run = 1
    /\ first = NoOut
    /\ tick = 0

BucketSpec == InitBucket /\ [][NextStats]_vars

(***************************************************************************)
(* The histogram of analyze_windows_file_types and the report of its first *)
(* buckets, on walks that meet files of up to MaxBuckets extensions.       *)
(***************************************************************************)
\* most files met, and most extensions among them
MaxFiles == 7
MaxBuckets == 6

Digits == <<"1", "2", "3", "4", "5", "6", "7", "8", "9">>

\* the k-th extension met
ExtName(k) == <<".", Digits[k]>>

\* the largest number of s, 0 when s is empty
Largest(s) ==
    IF s = <<>> THEN 0
    ELSE CHOOSE m \in {s[i] : i \in 1..Len(s)} : \A i \in 1..Len(s) : s[i] <= m

RECURSIVE Encounters(_)
\* the walks of n files: for every file the number of its extension, the
\* extensions numbered in the order the walk first meets them
Encounters(n) ==
    IF n = 0 THEN {<<>>}
    ELSE UNION {{Append(s, k) :
                    k \in 1..(IF Largest(s) < MaxBuckets THEN Largest(s) + 1
                               ELSE MaxBuckets)} :
                   s \in Encounters(n - 1)}

RECURSIVE Histogram(_)
\* extensions_stats after the files of the walk, one byte each
Histogram(encountered) ==
    IF encountered = <<>> THEN <<>>
    ELSE AddToBucket(Histogram(SubSeq(encountered, 1, Len(encountered) - 1)),
                     ExtName(encountered[Len(encountered)]), 1)

InitTypes ==
    /\ fs = MkTree([f |-> <<>>, fsize |-> 1, h |-> FALSE, d |-> "none", g |-> FALSE,
                    gsize |-> 1, gok |-> TRUE, l |-> "none"])
    /\ cwd = "root"
    /\ root = <<"\\", "t">>
    /\ cmd = "types"
    /\ \E n \in 1..MaxFiles :
          \E e \in Encounters(n) : arg = [NoArg EXCEPT !.encountered = e]
    /\ pc = "idle"
    /\ phase = "none"
    /\ stack = <<>>
    /\ acc = NoAcc
    /\ out = NoOut
    /\ visits = NoVisits
    /\ last = NoItem
    /\ run = 1
    /\ first = NoOut
    /\ tick = 0

\* lines 169-175 for every file met, the sort of lines 191-192 and the
\* report of lines 308-313
CollectTypes ==
    /\ pc = "idle"
    /\ cmd = "types"
    /\ acc' = [acc EXCEPT !.success = TRUE,
                          !.extensions_stats = Histogram(arg.encountered)]
    /\ out' = [out EXCEPT
                  !.ran = {"types"},
                  !.types = [success |-> TRUE,
                             stats |-> SortByCount(Histogram(arg.encountered))],
                  !.top = TopTypes(SortByCount(Histogram(arg.encountered)))]
    /\ pc' = "done"
    /\ tick' = 1 - tick
    /\ UNCHANGED <<fs, cwd, root, cmd, arg, phase, stack, visits, last, run, first>>

NextTypes == CollectTypes

TypesSpec == InitTypes /\ [][NextTypes]_vars

(***************************************************************************)
(* list_directory on every path of every tree, and on a path that names    *)
(* nothing.                                                                *)
(***************************************************************************)
RECURSIVE PathOf(_)
\* the path of node n from the root of the drive
PathOf(n) ==
    IF fs[n].parent = "root" THEN <<"\\">> \o fs[n].name
    ELSE PathOf(fs[n].parent) \o <<"\\">> \o fs[n].name

\* the paths list_directory is given
ListPaths ==
    {PathOf(n) : n \in {x \in NodeIds \ {"root"} : fs[x].present}}
        \cup {<<"\\", "z">>}

InitList ==
    /\ fs \in Trees
    /\ cwd = "root"
    /\ root = <<"\\", "t">>
    /\ cmd = "list"
    /\ \E p \in ListPaths : arg = [NoArg EXCEPT !.name = p]
    /\ pc = "idle"
    /\ phase = "none"
    /\ stack = <<>>
    /\ acc = NoAcc
    /\ out = NoOut
    /\ visits = NoVisits
    /\ last = NoItem
    /\ run = 1
    /\ first = NoOut
    /\ tick = 0

\* a call of navigation.list_directory on the path arg.name
ListDirectory ==
    /\ pc = "idle"
    /\ cmd = "list"
    /\ out' = [out EXCEPT !.listing = list_directory(arg.name)]
    /\ pc' = "done"
    /\ tick' = 1 - tick
    /\ UNCHANGED <<fs, cwd, root, cmd, arg, phase, stack, acc, visits, last, run, first>>

NextList == ListDirectory

ListSpec == InitList /\ [][NextList]_vars

(***************************************************************************)
(* validate_windows_path and list_directory on the paths of every tree in  *)
(* their forms: from the root of the drive, with a drive letter, with a    *)
(* slash, with a forbidden character, and longer than 260 characters.      *)
(***************************************************************************)
\* how often the long path goes through the link that leads back to \t
MaxTurns == 5

\* \t followed n times by \d\xx...x
Around(n) ==
    IF n = 0 THEN <<"\\">> \o NameT
    ELSE Flatten([i \in 1..(n + 1) |->
                    IF i = 1 THEN <<"\\">> \o NameT
                    ELSE <<"\\">> \o NameD \o <<"\\">> \o NameL])

\* the path p with a slash for its last backslash
Slashed(p) ==
    [i \in 1..Len(p) |-> IF i = LastIndex(p, "\\") THEN "/" ELSE p[i]]

ValidPaths ==
    ListPaths
        \cup {<<"C", ":">> \o p : p \in ListPaths}
        \cup {Slashed(p) : p \in ListPaths}
        \cup {<<"\\", "t", "\\", "?">>}
        \cup {Around(n) \o <<"\\">> \o fs[x].name :
                 n \in (MaxTurns - 1)..MaxTurns,
                 x \in {y \in NodeIds : fs[y].present /\ fs[y].parent = "t"}}

InitValid ==
    /\ fs \in Trees
    /\ cwd = "root"
    /\ root = <<"\\", "t">>
    /\ cmd \in {"validate", "list"}
    /\ \E p \in ValidPaths : arg = [NoArg EXCEPT !.name = p]
    /\ pc = "idle"
    /\ phase = "none"
    /\ stack = <<>>
    /\ acc = NoAcc
    /\ out = NoOut
    /\ visits = NoVisits
    /\ last = NoItem
    /\ run = 1
    /\ first = NoOut
    /\ tick = 0

\* a call of utils.validate_windows_path on the path arg.name
ValidatePath ==
    /\ pc = "idle"
    /\ cmd = "validate"
    /\ out' = [out EXCEPT !.valid = validate_result(arg.name)]
    /\ pc' = "done"
    /\ tick' = 1 - tick
    /\ UNCHANGED <<fs, cwd, root, cmd, arg, phase, stack, acc, visits, last, run, first>>

NextValid ==
    \/ ValidatePath
    \/ ListDirectory

ValidSpec == InitValid /\ [][NextValid]_vars

(***************************************************************************)
(* format_size on the byte counts around its thresholds.                   *)
(***************************************************************************)
\* how far from 0 and from a threshold the byte counts go
MaxOffset == 8

\* the byte counts formatted: around 1024, 1024^2 and 1024^3, from 0 on,
\* and the two counts of kilobytes halfway between two tenths
FormatInputs ==
    (0..MaxOffset)
        \cup UNION {(t - MaxOffset)..(t + MaxOffset) :
                      t \in {1024, 1024 * 1024, 1024 * 1024 * 1024}}
        \cup {1280, 1792}

InitFormat ==
    /\ fs = MkTree([f |-> <<>>, fsize |-> 1, h |-> FALSE, d |-> "none", g |-> FALSE,
                    gsize |-> 1, gok |-> TRUE, l |-> "none"])
    /\ cwd = "root"
    /\ root = <<"\\", "t">>
    /\ cmd = "format"
    /\ \E n \in FormatInputs : arg = [NoArg EXCEPT !.size_bytes = n]
    /\ pc = "idle"
    /\ phase = "none"
    /\ stack = <<>>
    /\ acc = NoAcc
    /\ out = NoOut
    /\ visits = NoVisits
    /\ last = NoItem
    /\ run = 1
    /\ first = NoOut
    /\ tick = 0

\* a call of utils.format_size on arg.size_bytes
FormatSize ==
    /\ pc = "idle"
    /\ cmd = "format"
    /\ out' = [out EXCEPT !.formatted = format_size(arg.size_bytes)]
    /\ pc' = "done"
    /\ tick' = 1 - tick
    /\ UNCHANGED <<fs, cwd, root, cmd, arg, phase, stack, acc, visits, last, run, first>>

NextFormat == FormatSize

FormatSpec == InitFormat /\ [][NextFormat]_vars

(***************************************************************************)
(* main.py: a session of the commands "5" (move_up) and "6" (move_down).   *)
(* root is the session's current_path.                                     *)
(***************************************************************************)
\* how many navigation commands a session gives
MaxMoves == 3

\* the trees of a session: the sizes and attributes of files do not bear
\* on navigation
NavTrees ==
    {MkTree(c) : c \in {x \in Shapes : /\ Canonical(x)
                                        /\ x.f = NameNoExt
                                        /\ x.fsize = 1 /\ x.gsize = 1
                                        /\ ~x.h /\ ~x.g /\ x.gok}}

\* the directories a session starts in
StartPaths ==
    {p \in {<<"\\", "t">>, <<"\\", "t", "\\", "d">>,
            <<"C", ":", "\\">>, <<"C", ":", "\\", "t">>,
            <<"C", ":", "\\", "t", "\\", "d">>} : isdir(p)}

\* what the user types for the name of the subdirectory
Targets ==
    {NameD, NameL, fs["f"].name, fs["f"].name \o <<"\\", ".", ".">>,
     <<".", ".">>, <<>>, <<"z">>, <<"\\", "t">>, <<"C", ":", "\\", "t">>}

InitNav ==
    /\ fs \in NavTrees
    /\ cwd = "root"
    /\ root \in StartPaths
    /\ cmd = "navigate"
    /\ \E ds \in DriveLists, r \in BOOLEAN :
           arg = [NoArg EXCEPT !.drives = ds, !.ready = r]
    /\ pc = "idle"
    /\ phase = "none"
    /\ stack = <<>>
    /\ acc = NoAcc
    /\ out = NoOut
    /\ visits = NoVisits
    /\ last = NoItem
    /\ run = 1
    /\ first = NoOut
    /\ tick = 0

\* handle_windows_navigation("5", current_path)
MoveUp ==
    /\ cmd = "navigate"
    /\ out.moves < MaxMoves
    /\ LET new_path == move_up(root, arg.drives, arg.ready)
       IN  /\ root' = new_path
           /\ out' = [out EXCEPT !.moved = [command |-> "5", from |-> root,
                                            target |-> <<>>, success |-> TRUE,
                                            to |-> new_path],
                                 !.moves = @ + 1]
    /\ tick' = 1 - tick
    /\ UNCHANGED <<fs, cwd, cmd, arg, pc, phase, stack, acc, visits, last, run, first>>

\* handle_windows_navigation("6", current_path), the user typing dir_name
MoveDown ==
    /\ cmd = "navigate"
    /\ out.moves < MaxMoves
    /\ \E typed \in Targets :
         LET dir_name == Strip(typed)
             result   == move_down(root, dir_name)
         IN  /\ root' = IF result.success THEN result.path ELSE root
             /\ out' = [out EXCEPT !.moved = [command |-> "6", from |-> root,
                                              target |-> dir_name,
                                              success |-> result.success,
                                              to |-> result.path],
                                   !.moves = @ + 1]
    /\ tick' = 1 - tick
    /\ UNCHANGED <<fs, cwd, cmd, arg, pc, phase, stack, acc, visits, last, run, first>>

NextNav ==
    \/ MoveUp
    \/ MoveDown

NavSpec == InitNav /\ [][NextNav]_vars

(***************************************************************************)
(* What the specification says of a tree, stated on the tree itself.       *)
(***************************************************************************)
RECURSIVE Reachable(_)
\* the entries a depth-first traversal from directory n reaches when it
\* lists every directory that can be listed and follows no symbolic link
Reachable(n) ==
    IF n = NoNode \/ fs[n].kind # "dir" \/ ~fs[n].ok THEN {}
    ELSE UNION {{c} \cup Reachable(c) :
                   c \in {x \in NodeIds : fs[x].present /\ fs[x].parent = n}}

\* the reachable entries that are neither directories nor symbolic links
RealFiles == {x \in Reachable(Resolve(root, TRUE)) : fs[x].kind = "file"}

RECURSIVE SumOf(_)
SumOf(s) == IF s = <<>> THEN 0 ELSE s[1] + SumOf(Tail(s))

\* the sizes of the reachable files, the files of the deny-list left out and
\* a file of unreadable size taken as 0
SizesSummed ==
    SumOf([i \in 1..Len(NodeOrder) |->
              LET x == NodeOrder[i]
              IN  IF x \in RealFiles /\ Lower(fs[x].name) \notin system_files /\ fs[x].ok
                  THEN fs[x].size ELSE 0])

\* the path is given from the root of the drive and the program lists it
ListableRoot == IsRooted(root) /\ list_directory(root).success

\* the tree holds a symbolic link to a directory that is its ancestor
BackLink ==
    \E x \in NodeIds :
        /\ fs[x].present /\ fs[x].kind = "link"
        /\ fs[fs[x].target].present /\ fs[fs[x].target].kind = "dir"
        /\ fs[fs[x].parent].parent = fs[x].target

\* the characters c and d are the same, letter case ignored unless
\* case_sensitive
SameChar(c, d, case_sensitive) ==
    IF case_sensitive THEN c = d ELSE LowerChar(c) = LowerChar(d)

RECURSIVE Glob(_, _, _, _, _)
\* the whole of s from position j on matches pattern from position i on:
\* * stands for zero or more characters, ? for exactly one, every other
\* character for itself
Glob(pattern, i, s, j, case_sensitive) ==
    IF i > Len(pattern) THEN j > Len(s)
    ELSE IF pattern[i] = "*"
    THEN \E k \in j..(Len(s) + 1) : Glob(pattern, i + 1, s, k, case_sensitive)
    ELSE /\ j <= Len(s)
         /\ pattern[i] = "?" \/ SameChar(pattern[i], s[j], case_sensitive)
         /\ Glob(pattern, i + 1, s, j + 1, case_sensitive)

\* the files of the tree that are entries of the directory the search is
\* given
FilesOfRoot ==
    {x \in NodeIds : /\ fs[x].present
                     /\ fs[x].kind = "file"
                     /\ fs[x].parent = Resolve(root, TRUE)}

\* the search has put a path of file x on its result list
Reported(x) == \E i \in 1..Len(acc.result) : Resolve(acc.result[i], FALSE) = x

(***************************************************************************)
(* Properties.                                                             *)
(***************************************************************************)
\* C1: on an existing, listable path count_files returns (True, n) with n
\* the number of reachable entries that are neither directories nor symbolic
\* links: a link to a file is not counted, a link to a directory is not
\* descended into.  Stated for the paths given from the root of the drive.
C1_CountIsRealFiles ==
    ("count_files" \in out.ran /\ ListableRoot)
        => out.files = [success |-> TRUE, n |-> Cardinality(RealFiles)]

\* C2: the total of count_bytes is the sum of the sizes of the reachable
\* files, without the symlinked files and without the files whose lowercase
\* bare name is pagefile.sys, hiberfil.sys or swapfile.sys; a file of
\* unreadable size adds 0.  Stated for the paths given from the root of the
\* drive.
C2_BytesAreSummedSizes ==
    ("count_bytes" \in out.ran /\ ListableRoot)
        => out.bytes = [success |-> TRUE, n |-> SizesSummed]

\* C3: on a tree that does not change between the two calls, the counts of
\* the extension buckets of analyze_windows_file_types sum to the number
\* count_files returns.
C3_HistogramSumsToCount ==
    ({"count_files", "types"} \subseteq out.ran)
        => SumOf([i \in 1..Len(out.types.stats) |-> out.types.stats[i].count])
               = out.files.n

\* both walks have returned, several files share a bucket and there are
\* several buckets
C3_Witness ==
    /\ {"count_files", "types"} \subseteq out.ran
    /\ ListableRoot
    /\ out.files.n >= 3
    /\ Len(out.types.stats) >= 2
    /\ \E i \in 1..Len(out.types.stats) : out.types.stats[i].count >= 2

\* C4: in the largest-files walk (K = 3) the window holds at most K records
\* and is sorted by size, largest first, after every file; a file smaller
\* than the smallest record of a window that holds K records leaves the
\* window as it was.
C4_WindowBoundedSorted ==
    /\ Len(acc.file_list) <= max_files
    /\ \A i \in 1..(Len(acc.file_list) - 1) :
          acc.file_list[i].size >= acc.file_list[i + 1].size
    /\ (last.kind = "file" /\ last.full /\ last.size < last.min)
          => acc.file_list = last.before

\* a file smaller than the smallest of a full window has been processed
C4_Witness ==
    /\ phase = "largest"
    /\ last.kind = "file" /\ last.full /\ last.size < last.min
    /\ Len(acc.file_list) = max_files

\* C7: on a tree with a symbolic link to a directory that is one of its
\* ancestors no walk counts a real file more than once.
C7_NoFileCountedTwice ==
    BackLink => \A n \in NodeIds : visits[n] <= 1

\* C8: a search walk never raises, whatever the root path and the tree.
C8_SearchNeverRaises == pc # "raised"

\* C5: when one subdirectory cannot be listed, count_files, count_bytes,
\* analyze_windows_file_types and get_windows_file_attributes_stats return
\* what they return on the same tree with that subdirectory and everything
\* under it removed.
C5_DeniedSubtreeAbsorbed ==
    (run = 2 /\ pc = "done")
        => /\ out.files = first.files
           /\ out.bytes = first.bytes
           /\ out.types = first.types
           /\ out.attrs = first.attrs

\* C6: on a tree with a symbolic link to a directory that is one of its
\* ancestors, each of the five walks that is started returns.
C6_WalksReturn ==
    (pc = "walk" /\ BackLink) ~> (pc # "walk" /\ phase \in out.ran)

\* the five walks have returned on a tree with such a link, which count_files
\* went through
C6_Witness ==
    /\ pc = "done"
    /\ BackLink
    /\ ListableRoot
    /\ out.ran = {Phases[i] : i \in 1..Len(Phases)}
    /\ out.files.n > Cardinality(RealFiles)

\* C9 as stated: the match accepts a name exactly when the whole name matches
\* the pattern (* zero or more characters, ? exactly one, every other
\* character itself), letter case ignored unless case_sensitive.
C9_WholeNameMatches ==
    (cmd = "match" /\ pc = "done")
        => (out.found # <<>>
               <=> Glob(arg.pattern, 1, arg.name, 1, arg.case_sensitive))

\* C9 as the code has it: the match accepts a name exactly when the name
\* without its leading and trailing blanks is not empty and wholly matches
\* the pattern without its leading and trailing blanks; it then appends the
\* name once.  With case_sensitive=False "*.txt" matches "a.txt" and "A.TXT"
\* and not "a.txtx", "file?.log" matches "file1.log" and not "file12.log".
C9_StrippedNameMatches ==
    (cmd = "match" /\ pc = "done")
        => /\ out.found # <<>>
                <=> /\ Strip(arg.name) # <<>>
                    /\ Glob(Strip(arg.pattern), 1, Strip(arg.name), 1,
                            arg.case_sensitive)
           /\ Len(out.found) <= 1
           /\ (~arg.case_sensitive /\ arg.pattern = StarTxt)
                 => /\ arg.name \in {ATxt, ATxtUpper} => out.found # <<>>
                    /\ arg.name = ATxtx => out.found = <<>>
           /\ (~arg.case_sensitive /\ arg.pattern = FileQLog)
                 => /\ arg.name = File1Log => out.found # <<>>
                    /\ arg.name = File12Log => out.found = <<>>

\* "*.txt" has been matched against "A.TXT", letter case ignored, and the
\* name accepted
C9_Witness ==
    /\ cmd = "match" /\ pc = "done"
    /\ arg.pattern = StarTxt /\ arg.name = ATxtUpper /\ ~arg.case_sensitive
    /\ out.found = <<ATxtUpper>>

\* C10: pattern search reports a file of the directory it is given exactly
\* when the bare name of the file matches the pattern, whatever the names of
\* the directories the file lies in.  Stated for the paths given from the root
\* of the drive.
C10_BareNameDecides ==
    (cmd = "find_files" /\ pc \in {"raised", "done"} /\ ListableRoot)
        => \A x \in FilesOfRoot :
              Reported(x) <=> Glob(Strip(arg.pattern), 1, Strip(fs[x].name), 1,
                                   arg.case_sensitive)

\* C11: find_by_windows_extension lowers each extension given and puts a dot
\* before it when it has none, and reports a file of the directory it is
\* given exactly when the extension of the file, by the rule of the last
\* dot, is one of them.  Stated for the paths given from the root of the
\* drive.
C11_ExtensionDecides ==
    (cmd = "find_by_ext" /\ pc \in {"raised", "done"} /\ ListableRoot)
        => \A x \in FilesOfRoot :
              Reported(x)
                 <=> \E k \in 1..Len(arg.extensions) :
                        LET e == Lower(arg.extensions[k])
                        IN  ExtOf(fs[x].name) = IF e[1] = "." THEN e ELSE <<".">> \o e

\* C12: find_large_files_windows reports exactly the files, directories
\* excluded, whose size in bytes is at least int(min_size_mb * 1024 * 1024),
\* each with its size in megabytes rounded to two decimals.  Stated for the
\* entries of the directory given, a path from the root of the drive.
C12_LargeFilesOnly ==
    (cmd = "find_large" /\ pc \in {"raised", "done"} /\ ListableRoot)
        => \A x \in NodeIds :
              (fs[x].present /\ fs[x].parent = Resolve(root, TRUE))
                 => LET hits == {i \in 1..Len(acc.result) :
                                    Resolve(acc.result[i].path, FALSE) = x}
                    IN  /\ hits # {}
                           <=> (fs[x].kind = "file"
                                /\ fs[x].size >= arg.min_size_mb * 1024 * 1024)
                        /\ \A i \in hits :
                              acc.result[i].size_mb = size_mb(fs[x].size)

\* the size in bytes of the file a record of the sorted result names
BytesOf(info) ==
    arg.sizes[CHOOSE i \in 1..Len(arg.sizes) :
                 FullPath(root, <<FoundNames[i]>>) = info.path]

C14_UnlistableRootFails ==
    (cmd = "stats" /\ pc = "done"
        /\ {"count_files", "count_bytes", "types"} \subseteq out.ran
        /\ ~(exists(root) /\ list_directory(root).success))
        => (~out.files.success /\ ~out.bytes.success /\ ~out.types.success)

\* C15: list_directory reports failure, (False, []), for a path that does
\* not exist, for a path that is not a directory and for a directory whose
\* listing is denied; it reports success only when the directory was listed.
C15_FailsUnlessListed ==
    (cmd = "list" /\ pc = "done")
        => LET n == Resolve(arg.name, TRUE)
               listed == n # NoNode /\ fs[n].kind = "dir" /\ fs[n].ok
           IN  /\ out.listing.success <=> listed
               /\ ~listed => out.listing.items = <<>>

\* C16: an entry whose stat fails is absent from what list_directory
\* returns, every other entry of the directory is present, and the call
\* succeeds.
C16_FailedStatOmitted ==
    (cmd = "list" /\ pc = "done" /\ isdir(arg.name)
        /\ fs[Resolve(arg.name, TRUE)].ok)
        => /\ out.listing.success
           /\ \A x \in NodeIds :
                 (fs[x].present /\ fs[x].parent = Resolve(arg.name, TRUE))
                    => ((\E i \in 1..Len(out.listing.items) :
                            out.listing.items[i].name
                               = ChildStr(arg.name, fs[x].name))
                        <=> getsize(PathOf(x)).ok)

\* C17: a search walk lists every directory that can be reached from the
\* root exactly once: when the search has ended, each of them is named by
\* exactly one path of the visited set.  Stated for the paths given from the
\* root of the drive.
C17_EveryDirectoryListedOnce ==
    (cmd \in Searches /\ pc \in {"raised", "done"} /\ ListableRoot)
        => \A x \in {Resolve(root, TRUE)}
                       \cup {y \in Reachable(Resolve(root, TRUE)) :
                                fs[y].kind = "dir"} :
              Cardinality({p \in acc.visited : Resolve(p, FALSE) = x}) = 1

\* the roots find_windows_system_files has called its search on
SearchedRoots ==
    {SearchRoot(acc.roots[i]) :
        i \in {j \in 1..acc.ri : Len(SearchRoot(acc.roots[j])) # 0}}

\* an environment value that names a directory that exists
Resolves(r) == r # <<>> /\ exists(r)

\* C18: find_windows_system_files searches the caller's path exactly when
\* none of the five system directories resolves, and it does not search a
\* system directory that does not resolve (its environment value missing or
\* empty, or naming nothing that exists).
C18_FallsBackToCallersPath ==
    (cmd = "find_system" /\ pc \in {"raised", "done"})
        => LET special == get_windows_special_folders(arg.env)
               system  == {special[k] : k \in DOMAIN special}
           IN  /\ normpath(Backslashes(Strip(root))) \in SearchedRoots
                     <=> \A r \in system : ~Resolves(r)
               /\ \A r \in system :
                     ~Resolves(r) => SearchRoot(r) \notin SearchedRoots

\* the extension of a bare file name by the rule of the last dot
BareExtension(name) ==
    LET k == LastIndex(name, ".")
    IN  IF k = 0 THEN no_extension
        ELSE <<".">> \o Lower(SubSeq(name, k + 1, Len(name)))

\* C19: the bucket of a file in the histogram of extensions is decided by
\* the bare name of the file alone (what follows its last dot, lowered, or
\* the bucket of the names without a dot); the name of the directory that
\* holds the file does not affect it.
C19_BucketFromBareName ==
    (cmd = "stats" /\ pc = "done" /\ fs["g"].present /\ fs["d"].ok
        /\ ~fs["f"].present /\ ~fs["h"].present /\ ~fs["l"].present
        /\ ListableRoot)
        => /\ Len(out.types.stats) = 1
           /\ out.types.stats[1].ext = BareExtension(fs["g"].name)

\* C20: every bucket of the histogram has exactly one category, the first
\* one in the order of the table whose set holds the extension ('.sys' is
\* 'executables') or 'other' when no set holds it; and is_windows is true
\* exactly when some set holds the extension, that is, exactly when the
\* category is not 'other'.
C20_FirstCategoryWins ==
    "types" \in out.ran
        => \A b \in 1..Len(out.types.stats) :
              LET bucket == out.types.stats[b]
                  holds  == {i \in 1..Len(windows_extension_categories) :
                                bucket.ext \in windows_extension_categories[i].exts}
              IN  /\ bucket.category =
                        IF holds = {} THEN "other"
                        ELSE windows_extension_categories[
                                 CHOOSE i \in holds : \A j \in holds : i <= j].name
                  /\ bucket.is_windows <=> holds # {}
                  /\ bucket.is_windows <=> bucket.category # "other"

\* a histogram with the bucket '.sys' in 'executables' and a bucket in 'other'
C20_Witness ==
    /\ "types" \in out.ran
    /\ \E b \in 1..Len(out.types.stats) :
          /\ out.types.stats[b].ext = <<".", "s", "y", "s">>
          /\ out.types.stats[b].category = "executables"
          /\ out.types.stats[b].is_windows
    /\ \E b \in 1..Len(out.types.stats) :
          /\ out.types.stats[b].category = "other"
          /\ ~out.types.stats[b].is_windows

\* the place of the first file of extension ext in the walk
FirstMet(ext) ==
    CHOOSE i \in 1..Len(arg.encountered) :
        /\ ExtName(arg.encountered[i]) = ext
        /\ \A j \in 1..(i - 1) : ExtName(arg.encountered[j]) # ext

\* C21: what analyze_windows_file_types returns has one bucket for every
\* extension met, in descending order of count, the buckets of one count in
\* the order the walk first met them; and the report of
\* show_windows_directory_stats holds the first five buckets of that order.
C21_SortedByCountStable ==
    (cmd = "types" /\ pc = "done")
        => LET stats == out.types.stats
           IN  /\ {stats[i].ext : i \in 1..Len(stats)}
                     = {ExtName(arg.encountered[i]) : i \in 1..Len(arg.encountered)}
               /\ \A i, j \in 1..Len(stats) :
                     i < j => /\ stats[i].ext # stats[j].ext
                              /\ stats[i].count >= stats[j].count
                              /\ stats[i].count = stats[j].count
                                    => FirstMet(stats[i].ext) < FirstMet(stats[j].ext)
               /\ \A i \in 1..Len(stats) :
                     stats[i].count =
                        Cardinality({k \in 1..Len(arg.encountered) :
                                        ExtName(arg.encountered[k]) = stats[i].ext})
               /\ out.top = SubSeq(stats, 1, IF Len(stats) > 5 THEN 5 ELSE Len(stats))

\* six buckets, two of them of one count, the order of the walk changed by
\* the sort, and five of them in the report
C21_Witness ==
    /\ cmd = "types" /\ pc = "done"
    /\ Len(out.types.stats) = 6
    /\ Len(out.top) = 5
    /\ out.types.stats # acc.extensions_stats
    /\ \E i \in 1..5 : out.types.stats[i].count = out.types.stats[i + 1].count

\* C22: get_windows_file_attributes_stats counts files only, a directory
\* being descended into and never counted, and each of its four counters is
\* the number of files visited that pass its check.  Stated for the trees
\* without a symbolic link and the root paths list_directory lists: the
\* files visited are the files under the root.
C22_AttributesOfFilesOnly ==
    (cmd = "stats" /\ phase = "attrs" /\ pc = "between" /\ ~fs["l"].present
        /\ list_directory(root).success)
        => /\ out.attrs.hidden = Cardinality({x \in RealFiles : fs[x].hidden})
           /\ out.attrs.readonly = Cardinality({x \in RealFiles : ~fs[x].writable})
           /\ out.attrs.archive =
                 Cardinality({x \in RealFiles :
                    \E suf \in archive_suffixes : EndsWith(Lower(fs[x].name), suf)})
           /\ out.attrs.system =
                 Cardinality({x \in RealFiles :
                    /\ \E suf \in sys_suffixes : EndsWith(Lower(fs[x].name), suf)
                    /\ \E w \in sys_dirs :
                          Contains(Lower(PathOf(fs[x].parent)), w)})
           /\ \A k \in DOMAIN out.attrs : out.attrs[k] <= Cardinality(RealFiles)

\* C23: validate_windows_path returns (True, '') exactly for a path that
\* has none of the characters / : * ? " < > |, is at most 260 characters
\* long and exists, and (False, message) for every other; so a path with the
\* colon of a drive letter is invalid, and list_directory returns
\* (False, []) for it.
C23_ValidExactly ==
    /\ (cmd = "validate" /\ pc = "done")
          => /\ out.valid.ok
                   <=> /\ \A i \in 1..Len(arg.name) :
                             arg.name[i] \notin {"/", ":", "*", "?", "\"", "<", ">", "|"}
                       /\ Len(arg.name) <= 260
                       /\ Resolve(arg.name, TRUE) # NoNode
             /\ out.valid.ok <=> out.valid.message = ""
    /\ (cmd = "list" /\ pc = "done" /\ HasChar(arg.name, ":"))
          => out.listing = [success |-> FALSE, items |-> <<>>]

\* a directory that exists, named with its drive letter, is reported invalid
C23_Witness ==
    /\ cmd = "validate" /\ pc = "done"
    /\ HasChar(arg.name, ":")
    /\ isdir(arg.name)
    /\ ~out.valid.ok

\* C24: format_size chooses the unit by binary thresholds, 'B' below 1024,
\* 'KB' below 1024^2, 'MB' below 1024^3 and 'GB' from there on, and below
\* 1024 the number it prints is the byte count itself.
C24_BinaryUnits ==
    (cmd = "format" /\ pc = "done")
        => LET n == arg.size_bytes
           IN  /\ out.formatted.unit = "B" <=> n < 1024
               /\ out.formatted.unit = "KB" <=> (1024 <= n /\ n < 1048576)
               /\ out.formatted.unit = "MB" <=> (1048576 <= n /\ n < 1073741824)
               /\ out.formatted.unit = "GB" <=> 1073741824 <= n
               /\ n < 1024 => (out.formatted.number = n /\ ~out.formatted.decimal)

\* a count of at least 1000 and below 1024 printed in bytes
C24_Witness ==
    /\ cmd = "format" /\ pc = "done"
    /\ arg.size_bytes >= 1000 /\ arg.size_bytes < 1024
    /\ out.formatted = [number |-> arg.size_bytes, decimal |-> FALSE, unit |-> "B"]

\* whether the path names an existing directory, on the drive of the tree
\* or as the root of the other drive
ExistingDirectory(p) ==
    IF DriveOf(p) = OtherDrive THEN p = OtherDrive \o <<"\\">> /\ arg.ready
    ELSE isdir(p)

\* the node of the directory that holds what the path names
ParentNode(p) ==
    LET comps == Collapse(<<>>, Components(p))
    IN  IF comps = <<>> THEN NoNode
        ELSE WalkPath("root", SubSeq(comps, 1, Len(comps) - 1), TRUE)

\* C25: move_up on a path that is not the root of a drive returns the path
\* of the parent directory whenever that directory exists, and returns the
\* path unchanged only when the parent is not a valid existing path.
C25_UpToExistingParent ==
    (cmd = "navigate" /\ out.moved.command = "5"
        /\ Collapse(<<>>, Components(out.moved.from)) # <<>>)
        => /\ ParentNode(out.moved.from) # NoNode
              => /\ out.moved.to # out.moved.from
                 /\ Resolve(out.moved.to, TRUE) = ParentNode(out.moved.from)
           /\ out.moved.to = out.moved.from
              => ~exists(get_parent_path(out.moved.from))

\* C26: move_down returns (True, joined path) exactly when the joined path
\* passes validation and is an existing directory, else (False,
\* current_path); and after any sequence of the two moves from an existing
\* directory the session's current path is an existing directory.
C26_StaysInDirectory ==
    (cmd = "navigate")
        => /\ out.moved.command = "6"
              => LET joined == join(out.moved.from, out.moved.target)
                     passes == validate_windows_path(joined) /\ isdir(joined)
                 IN  /\ out.moved.success <=> passes
                     /\ out.moved.to = IF passes THEN joined ELSE out.moved.from
                     /\ ~passes => root = out.moved.from
           /\ ExistingDirectory(root)

\* C27: every entry list_directory returns for a directory has as 'name'
\* the bare name of an immediate child and as 'type' the child's real kind,
\* 'directory' exactly when the child is a directory and 'file' otherwise,
\* so that joining the path and the name gives the child's path.
C27_BareNamesRealKinds ==
    (cmd = "list" /\ pc = "done" /\ out.listing.success /\ isdir(arg.name))
        => LET kids  == Children(Resolve(arg.name, TRUE))
               items == out.listing.items
           IN  \A i \in 1..Len(items) :
                  \E k \in 1..Len(kids) :
                     /\ items[i].name = fs[kids[k]].name
                     /\ items[i].type =
                            IF Deref(kids[k]) # NoNode /\ fs[Deref(kids[k])].kind = "dir"
                            THEN TypeDirectory ELSE TypeFile
                     /\ Resolve(join(arg.name, items[i].name), FALSE) = kids[k]

====
